---------------------------- MODULE Spec2Model ----------------------------
(***************************************************************************)
(* A model of the OCR MCP server of apps/mcp-servers/ocr:                  *)
(*   - ocr_engine.py: OCRBlock, OCRResult (to_dict), OCREngine.process     *)
(*   - server.py:     ocr_from_base64, ocr_from_path, the engine singleton *)
(*                                                                         *)
(* Strings are sequences of symbols.  A text is a sequence of characters,  *)
(* an error message a sequence of message parts (the empty sequence is the *)
(* empty string ""), a base64 input a sequence of input symbols, a path a  *)
(* sequence of path characters.  Python's None is the record NoneV, a      *)
(* value that is not None is Some(v).                                      *)
(*                                                                         *)
(* The detector (RapidOCR), the base64 decoder, the image codec (PIL) and  *)
(* the file system are collaborators outside the repository: they are     *)
(* modelled by what they hand back to the code (a detection list or an     *)
(* exception, bytes or an exception, an image or an exception, the kind of *)
(* node a path names).                                                     *)
(***************************************************************************)
EXTENDS Integers, Sequences, FiniteSets, TLC

VARIABLES
    op,      \* the operation of the last completed sequential call
    arg,     \* its argument
    ret,     \* the value it returned to its caller
    fx,      \* what happened during it (see NoEffects)
    calls    \* the overlapping process calls on the shared engine, per caller

vars == <<op, arg, ret, fx, calls>>

---------------------------------------------------------------------------
(* Bounds of the model *)

\* longest detection text, in characters
MaxTextLen == 2
\* most detections the detector returns for one image
MaxDetections == 2
\* longest image_base64 argument, in input symbols
MaxLen == 4
\* longest file_path argument, in characters
MaxPathLen == 2
\* callers that run process at overlapping times
NumCallers == 2

---------------------------------------------------------------------------
(* Generic helpers *)

SeqsUpTo(S, n) == UNION {[1..k -> S] : k \in 0..n}

NoneV == [isNone |-> TRUE, val |-> <<>>]
Some(v) == [isNone |-> FALSE, val |-> v]

\* Python truthiness of an Optional[list] or Optional[str]: None, [] and ""
\* are falsy.
Truthy(o) == ~o.isNone /\ o.val # <<>>

RECURSIVE SumSeq(_)
SumSeq(s) == IF s = <<>> THEN 0 ELSE Head(s) + SumSeq(Tail(s))

---------------------------------------------------------------------------
(* ocr_engine.py *)

NL == "\n"

\* Characters a detection text is made of.
TextChars == {"a", NL}
Texts == SeqsUpTo(TextChars, MaxTextLen)

\* Confidences are counted in ten-thousandths: 10000 is 1.0.  The detector
\* reports a recognition score, a probability.
Confidences == {0, 4985, 9996, 10000}

\* The detector reports a quadrilateral: 4 corner points, in its own order.
Quad1 == << <<0, 0>>, <<9, 0>>, <<9, 4>>, <<0, 4>> >>
Quad2 == << <<1, 5>>, <<8, 6>>, <<7, 9>>, <<0, 8>> >>

\* One raw detection: item[0] box, item[1] text, item[2] confidence
\* (1-based here).
Item(box, text, confidence) == <<box, text, confidence>>
\* The detections a list is drawn from: every text, and every confidence.
Items ==
    {Item(Quad1, t, 9996) : t \in Texts}
        \cup {Item(Quad2, <<"a", "a">>, c) : c \in Confidences}

\* What one call of the detector, self._ocr(image), does: it raises an
\* exception whose str() is msg, or it returns (raw_result, elapsed_list).
Raises(msg) ==
    [raises |-> TRUE, msg |-> msg, raw_result |-> NoneV, elapsed_list |-> NoneV]
Returns(raw, elapsed) ==
    [raises |-> FALSE, msg |-> <<>>, raw_result |-> raw, elapsed_list |-> elapsed]

\* Per-stage times (det, cls, rec), in milliseconds.
ElapsedLists == {NoneV, Some(<<>>), Some(<<2, 3, 5>>)}
RawResults == {NoneV} \cup {Some(r) : r \in SeqsUpTo(Items, MaxDetections)}
\* str(e) of an exception: "" for one raised without arguments.
ExcMessages == {<<>>, <<"detector failure">>}

Scenes ==
    {Returns(r, e) : r \in RawResults, e \in ElapsedLists}
        \cup {Raises(m) : m \in ExcMessages}

Modes == {"RGB", "RGBA", "P", "LA", "L", "CMYK", "1"}

\* A decoded image: its colour mode, what the detector does on its visible
\* content (scene), and whether its pixel data is truncated (the codec opens
\* such a file from its header and fails when the pixels are loaded).
Image(mode, scene, truncated) ==
    [mode |-> mode, scene |-> scene, truncated |-> truncated]

TruncatedMsg == <<"image file is truncated">>

\* self._ocr(image), line 64
Detect(image) == IF image.truncated THEN Raises(TruncatedMsg) ELSE image.scene

\* float(x): the detector's number as a Python float, the same value.
ToFloat(x) == x

\* A faulty rounding: always up to the next thousandth, also from an exact one.
Round3Ceil(x) == (x \div 10 + 1) * 10
\* round(x, 3): to the nearest thousandth (10 units), a tie to the even one.
Round3(x) ==
    LET q == x \div 10
        r == x % 10
    IN  IF r < 5 THEN q * 10
        ELSE IF r > 5 THEN (q + 1) * 10
        ELSE IF q % 2 = 0 THEN q * 10 ELSE (q + 1) * 10

\* [[float(p[0]), float(p[1])] for p in box], line 82
CoerceBox(box) ==
    [i \in 1..Len(box) |-> <<ToFloat(box[i][1]), ToFloat(box[i][2])>>]

\* OCRBlock(text=..., confidence=..., box=...), lines 75-83
MakeBlock(item) ==
    [text |-> item[2],
     confidence |-> Round3(ToFloat(item[3])),
     box |-> CoerceBox(item[1])]

\* Faulty joins: a blank line between the texts; the texts last to first.
RECURSIVE JoinDoubled(_)
JoinDoubled(lines) ==
    IF lines = <<>> THEN <<>>
    ELSE IF Len(lines) = 1 THEN lines[1]
    ELSE lines[1] \o <<NL, NL>> \o JoinDoubled(Tail(lines))
RECURSIVE JoinReversed(_)
JoinReversed(lines) ==
    IF lines = <<>> THEN <<>>
    ELSE IF Len(lines) = 1 THEN lines[1]
    ELSE JoinReversed(Tail(lines)) \o <<NL>> \o lines[1]
\* "\n".join(lines), line 90
RECURSIVE Join(_)
Join(lines) ==
    IF lines = <<>> THEN <<>>
    ELSE IF Len(lines) = 1 THEN lines[1]
    ELSE lines[1] \o <<NL>> \o Join(Tail(lines))

\* A faulty total: the stage times are dropped.
TotalElapsedZero(elapsed_list) == 0
\* sum(elapsed_list) if elapsed_list else 0, line 65
TotalElapsed(elapsed_list) ==
    IF Truthy(elapsed_list) THEN SumSeq(elapsed_list.val) ELSE 0

OCRResult(text, blocks, elapsed_seconds, error) ==
    [text |-> text, blocks |-> blocks,
     elapsed_seconds |-> elapsed_seconds, error |-> error]

\* The except branch of process, lines 95-102: error=str(e).
ErrorResult(msg) == OCRResult(<<>>, <<>>, 0, Some(msg))

\* OCREngine.process, lines 54-102
Process(image) ==
    LET out == Detect(image)
        total == TotalElapsed(out.elapsed_list)
        raw == out.raw_result.val
    IN  IF out.raises THEN ErrorResult(out.msg)
        ELSE IF ~Truthy(out.raw_result) THEN OCRResult(<<>>, <<>>, total, NoneV)
        ELSE OCRResult(Join([i \in 1..Len(raw) |-> raw[i][2]]),
                       [i \in 1..Len(raw) |-> MakeBlock(raw[i])],
                       total, NoneV)

\* OCRResult.to_dict, lines 28-43: the error key is added `if self.error`.
ToDict(result) ==
    IF Truthy(result.error)
    THEN [text |-> result.text, blocks |-> result.blocks, error |-> result.error.val]
    ELSE [text |-> result.text, blocks |-> result.blocks]

---------------------------------------------------------------------------
(* server.py: ocr_from_base64 *)

\* The symbols an image_base64 argument is made of: the scheme marker
\* "data:", the comma, "x" (one lone character of the base64 alphabet), and
\* the base64 groups that encode the image files of ImageOf.
DATA == "data:"
COMMA == ","
ImageGroups == {"TEXT", "BLANK", "FAIL", "MUTE", "PAL", "CMYK", "TRUNC"}
Base64Syms == ImageGroups \cup {"x"}
InputSyms == {DATA, COMMA} \cup Base64Syms
Inputs == SeqsUpTo(InputSyms, MaxLen)

TextScene ==
    Returns(Some(<<Item(Quad1, <<"a">>, 9996), Item(Quad2, <<>>, 4985)>>),
            Some(<<2, 3, 5>>))
BlankScene == Returns(NoneV, NoneV)

\* The image file each group encodes.  FAIL is a picture on which the
\* detector raises an exception with a message, MUTE one on which it raises
\* an exception without one (str(e) == "").
ImageOf(g) ==
    CASE g = "TEXT"  -> Image("RGB", TextScene, FALSE)
      [] g = "BLANK" -> Image("L", BlankScene, FALSE)
      [] g = "FAIL"  -> Image("RGB", Raises(<<"detector failure">>), FALSE)
      [] g = "MUTE"  -> Image("RGBA", Raises(<<>>), FALSE)
      [] g = "PAL"   -> Image("P", TextScene, FALSE)
      [] g = "CMYK"  -> Image("CMYK", TextScene, FALSE)
      [] g = "TRUNC" -> Image("LA", TextScene, TRUE)

\* image_base64.startswith("data:"), line 75
StartsWithData(s) == Len(s) >= 1 /\ s[1] = DATA

\* "," in image_base64, line 76
HasComma(s) == \E i \in 1..Len(s) : s[i] = COMMA

FirstComma(s) ==
    CHOOSE i \in 1..Len(s) : s[i] = COMMA /\ \A j \in 1..(i - 1) : s[j] # COMMA

\* A faulty cut, split(",", 1)[0]: everything before the first comma.
BeforeFirstComma(s) == SubSeq(s, 1, FirstComma(s) - 1)
\* image_base64.split(",", 1)[1], line 77: everything after the first comma
AfterFirstComma(s) == SubSeq(s, FirstComma(s) + 1, Len(s))

\* base64.b64decode(s), line 83, in its default non-validating mode: the
\* characters outside the base64 alphabet are discarded (the comma, the colon
\* of "data:", which leaves the group "data"), and what is left must be whole
\* groups of 4 characters, or binascii.Error is raised.
B64Chars(sym) == IF sym = "x" THEN 1 ELSE IF sym = COMMA THEN 0 ELSE 4
B64Kept(s) ==
    LET kept == SelectSeq(s, LAMBDA sym : sym # COMMA)
    IN  [i \in 1..Len(kept) |-> IF kept[i] = DATA THEN "data" ELSE kept[i]]
B64Decode(s) ==
    LET n == SumSeq([i \in 1..Len(s) |-> B64Chars(s[i])])
    IN  IF n % 4 = 0
        THEN [ok |-> TRUE, bytes |-> B64Kept(s), msg |-> <<>>]
        ELSE [ok |-> FALSE, bytes |-> <<>>, msg |-> <<"Incorrect padding">>]

NoImage == Image("RGB", BlankScene, FALSE)

\* Image.open(io.BytesIO(img_bytes)), line 89: the codec identifies an image
\* file by its leading bytes and does not read what follows the image's
\* data; bytes that start no image file raise UnidentifiedImageError.
OpenBytes(bytes) ==
    IF bytes # <<>> /\ bytes[1] \in ImageGroups
    THEN [ok |-> TRUE, img |-> ImageOf(bytes[1]), msg |-> <<>>]
    ELSE [ok |-> FALSE, img |-> NoImage, msg |-> <<"cannot identify image file">>]

\* A faulty list of modes: the palette mode is left out.
ConvertModesNoPalette == {"RGBA", "LA", "L"}
\* img.mode in ("RGBA", "P", "LA", "L"), lines 94 and 148
ConvertModes == {"RGBA", "P", "LA", "L"}

\* img.convert("RGB"), lines 95 and 149: loads the pixels, so it raises on a
\* truncated file.
Convert(img) ==
    IF img.truncated
    THEN [ok |-> FALSE, img |-> img, msg |-> TruncatedMsg]
    ELSE [ok |-> TRUE, img |-> [img EXCEPT !.mode = "RGB"], msg |-> <<>>]

\* What a handler call did besides returning: whether an exception reached
\* its caller, whether some step of it failed, whether it decoded base64,
\* whether it opened an image, the mode of the image as the codec opened it,
\* and the mode of the image it passed to engine.process (<<>>: none).
NoEffects ==
    [propagated |-> FALSE, failed |-> FALSE, decoded |-> FALSE,
     opened |-> FALSE, mode |-> <<>>, passed |-> <<>>]

\* {"text": "", "blocks": [], "error": message}
ErrorDict(msg) == [text |-> <<>>, blocks |-> <<>>, error |-> msg]

Reply(response, effects) == [response |-> response, fx |-> effects]

\* Lines 93-101 and 147-155: normalise the mode, run engine.process, serialise.
\* A failure of convert reaches the handler's outer except (lines 103-105 and
\* 157-159), which answers {"text": "", "blocks": [], "error": str(e)}.
Recognise(img, effects) ==
    LET conv == IF img.mode \in ConvertModes THEN Convert(img)
                ELSE [ok |-> TRUE, img |-> img, msg |-> <<>>]
    IN  IF ~conv.ok
        THEN Reply(ErrorDict(conv.msg),
                   [effects EXCEPT !.mode = <<img.mode>>, !.failed = TRUE])
        ELSE Reply(ToDict(Process(conv.img)),
                   [effects EXCEPT !.mode = <<img.mode>>,
                                   !.passed = <<conv.img.mode>>,
                                   !.failed = Detect(conv.img).raises])

\* ocr_from_base64, lines 73-105
OcrFromBase64(image_base64) ==
    IF StartsWithData(image_base64) /\ ~HasComma(image_base64)
    THEN Reply(ErrorDict(<<"Invalid data URI format">>),
               [NoEffects EXCEPT !.failed = TRUE])
    ELSE
    LET payload == IF StartsWithData(image_base64)
                   THEN AfterFirstComma(image_base64) ELSE image_base64
        dec == B64Decode(payload)
        opened == OpenBytes(dec.bytes)
    IN  IF ~dec.ok
        THEN Reply(ErrorDict(<<"Invalid base64: ">> \o dec.msg),
                   [NoEffects EXCEPT !.failed = TRUE, !.decoded = TRUE])
        ELSE IF ~opened.ok
        THEN Reply(ErrorDict(<<"Invalid image format: ">> \o opened.msg),
                   [NoEffects EXCEPT !.failed = TRUE, !.decoded = TRUE,
                                     !.opened = TRUE])
        ELSE Recognise(opened.img,
                       [NoEffects EXCEPT !.decoded = TRUE, !.opened = TRUE])

---------------------------------------------------------------------------
(* server.py: ocr_from_path *)

PathChars == {"/", "a"}
Paths == SeqsUpTo(PathChars, MaxPathLen)

\* What the file system holds at the place a path names (a relative path
\* names a place below the working directory): nothing, a directory, a
\* special file (a FIFO, a device), or a regular file with its content.
FileImages ==
    {Image(m, sc, t) :
        m \in Modes,
        sc \in {TextScene, BlankScene, Raises(<<"detector failure">>), Raises(<<>>)},
        t \in BOOLEAN}
Node(kind, readable, img) == [kind |-> kind, readable |-> readable, img |-> img]
Nodes ==
    {Node(k, FALSE, NoImage) : k \in {"absent", "dir", "special", "file"}}
        \cup {Node("file", TRUE, i) : i \in FileImages}

\* A path that ends in a slash names a directory or nothing.
NodeAt(path, node) ==
    (path # <<>> /\ path[Len(path)] = "/") => node.kind \in {"absent", "dir"}

\* os.path.isabs(file_path), line 129
IsAbs(path) == Len(path) >= 1 /\ path[1] = "/"
\* os.path.exists(file_path), line 132
Exists(node) == node.kind # "absent"
\* os.path.isfile(file_path), line 135
IsFile(node) == node.kind = "file"

\* Image.open(file_path), line 143
OpenFile(node) ==
    IF node.readable
    THEN [ok |-> TRUE, img |-> node.img, msg |-> <<>>]
    ELSE [ok |-> FALSE, img |-> NoImage, msg |-> <<"cannot identify image file">>]

\* A faulty order of the checks: exists before absolute.
OcrFromPathExistsFirst(file_path, node) ==
    LET failedFx == [NoEffects EXCEPT !.failed = TRUE]
        opened == OpenFile(node)
    IN  IF file_path = <<>>
        THEN Reply(ErrorDict(<<"File path is required">>), failedFx)
        ELSE IF ~Exists(node)
        THEN Reply(ErrorDict(<<"File not found: ">> \o file_path), failedFx)
        ELSE IF ~IsAbs(file_path)
        THEN Reply(ErrorDict(<<"File path must be absolute">>), failedFx)
        ELSE IF ~IsFile(node)
        THEN Reply(ErrorDict(<<"Not a file: ">> \o file_path), failedFx)
        ELSE IF ~opened.ok
        THEN Reply(ErrorDict(<<"Failed to open image: ">> \o opened.msg),
                   [failedFx EXCEPT !.opened = TRUE])
        ELSE Recognise(opened.img, [NoEffects EXCEPT !.opened = TRUE])
\* ocr_from_path, lines 124-159, with the node of the file system its
\* argument names.
OcrFromPath(file_path, node) ==
    LET failedFx == [NoEffects EXCEPT !.failed = TRUE]
        opened == OpenFile(node)
    IN  IF file_path = <<>>
        THEN Reply(ErrorDict(<<"File path is required">>), failedFx)
        ELSE IF ~IsAbs(file_path)
        THEN Reply(ErrorDict(<<"File path must be absolute">>), failedFx)
        ELSE IF ~Exists(node)
        THEN Reply(ErrorDict(<<"File not found: ">> \o file_path), failedFx)
        ELSE IF ~IsFile(node)
        THEN Reply(ErrorDict(<<"Not a file: ">> \o file_path), failedFx)
        ELSE IF ~opened.ok
        THEN Reply(ErrorDict(<<"Failed to open image: ">> \o opened.msg),
                   [failedFx EXCEPT !.opened = TRUE])
        ELSE Recognise(opened.img, [NoEffects EXCEPT !.opened = TRUE])

---------------------------------------------------------------------------
(* The overlapping process calls on the engine singleton (server.py line 53) *)

Callers == 1..NumCallers

\* The pictures the callers send: each has detections of its own.
CallerImages ==
    {Image("RGB", TextScene, FALSE),
     Image("RGB", Returns(Some(<<Item(Quad2, <<"a", "a">>, 10000),
                                 Item(Quad1, <<NL>>, 0)>>), Some(<<2>>)), FALSE),
     Image("RGB", Returns(Some(<<>>), Some(<<3>>)), FALSE),
     Image("RGB", Raises(<<"detector failure">>), FALSE)}

\* A call's frame: where it is in process, its argument and its locals
\* (raw_result, total_elapsed, blocks, lines, the position of the for loop),
\* and the OCRResult it returned.
IdleCall ==
    [pc |-> "idle", image |-> NoImage, raw_result |-> <<>>, total_elapsed |-> 0,
     next |-> 1, blocks |-> <<>>, lines |-> <<>>, result |-> OCRResult(<<>>, <<>>, 0, NoneV)]

---------------------------------------------------------------------------
(* The state machine *)

\* The pictures a direct caller of process sends: every scene, and a file
\* whose pixels cannot be loaded.
ProcessImages ==
    {Image("RGB", sc, FALSE) : sc \in Scenes} \cup {Image("RGB", BlankScene, TRUE)}

Init ==
    /\ op = "none"
    /\ arg = <<>>
    /\ ret = [text |-> <<>>, blocks |-> <<>>]
    /\ fx = NoEffects
    /\ calls = [c \in Callers |-> IdleCall]

\* A caller runs engine.process(image) alone, on any picture.
CallProcess ==
    /\ op = "none"
    /\ \E image \in ProcessImages :
          /\ op' = "process"
          /\ arg' = image
          /\ ret' = Process(image)
          /\ fx' = [NoEffects EXCEPT !.failed = Detect(image).raises,
                                     !.mode = <<image.mode>>,
                                     !.passed = <<image.mode>>]
    /\ UNCHANGED calls

\* A client calls the tool ocr_from_base64.
CallOcrFromBase64 ==
    /\ op = "none"
    /\ \E s \in Inputs :
          LET r == OcrFromBase64(s)
          IN  /\ op' = "ocr_from_base64"
              /\ arg' = s
              /\ ret' = r.response
              /\ fx' = r.fx
    /\ UNCHANGED calls

\* A client calls the tool ocr_from_path; node is what the file system holds
\* at the place the path names.
CallOcrFromPath ==
    /\ op = "none"
    /\ \E path \in Paths, node \in Nodes :
          /\ NodeAt(path, node)
          /\ LET r == OcrFromPath(path, node)
             IN  /\ op' = "ocr_from_path"
                 /\ arg' = [file_path |-> path, node |-> node]
                 /\ ret' = r.response
                 /\ fx' = r.fx
    /\ UNCHANGED calls

\* The caller has the returned value.  The server is stateless: nothing of
\* the call is kept for the next one.
Respond ==
    /\ op # "none"
    /\ op' = "none"
    /\ arg' = <<>>
    /\ ret' = [text |-> <<>>, blocks |-> <<>>]
    /\ fx' = NoEffects
    /\ UNCHANGED calls

Next == CallProcess \/ CallOcrFromBase64 \/ CallOcrFromPath \/ Respond

Spec == Init /\ [][Next]_vars

\* process, line 54: a caller enters with its image.
Enter(c) ==
    /\ calls[c].pc = "idle"
    /\ \E image \in CallerImages :
          calls' = [calls EXCEPT ![c] = [IdleCall EXCEPT !.pc = "detect", !.image = image]]
    /\ UNCHANGED <<op, arg, ret, fx>>

\* Lines 64-72 and 95-102: the detector runs on the caller's image; an
\* exception ends the call with the error result, an empty or null list with
\* the empty result; otherwise the loop starts with empty blocks and lines.
RunDetector(c) ==
    /\ calls[c].pc = "detect"
    /\ LET out == Detect(calls[c].image)
           total == TotalElapsed(out.elapsed_list)
       IN  calls' = [calls EXCEPT ![c] =
              IF out.raises
              THEN [@ EXCEPT !.pc = "done", !.result = ErrorResult(out.msg)]
              ELSE IF ~Truthy(out.raw_result)
              THEN [@ EXCEPT !.pc = "done",
                             !.result = OCRResult(<<>>, <<>>, total, NoneV)]
              ELSE [@ EXCEPT !.pc = "loop", !.raw_result = out.raw_result.val,
                             !.total_elapsed = total, !.next = 1,
                             !.blocks = <<>>, !.lines = <<>>]]
    /\ UNCHANGED <<op, arg, ret, fx>>

\* A faulty loop: blocks and lines kept on the engine, shared by the calls
\* that are in their loops.
LoopStepShared(c) ==
    /\ calls[c].pc = "loop"
    /\ calls[c].next <= Len(calls[c].raw_result)
    /\ LET item == calls[c].raw_result[calls[c].next]
       IN  calls' = [d \in Callers |->
              IF d = c
              THEN [calls[d] EXCEPT !.blocks = Append(@, MakeBlock(item)),
                                    !.lines = Append(@, item[2]),
                                    !.next = @ + 1]
              ELSE IF calls[d].pc = "loop"
              THEN [calls[d] EXCEPT !.blocks = Append(@, MakeBlock(item)),
                                    !.lines = Append(@, item[2])]
              ELSE calls[d]]
    /\ UNCHANGED <<op, arg, ret, fx>>
\* Lines 74-85: one turn of the for loop appends to the call's own lists.
LoopStep(c) ==
    /\ calls[c].pc = "loop"
    /\ calls[c].next <= Len(calls[c].raw_result)
    /\ LET item == calls[c].raw_result[calls[c].next]
       IN  calls' = [calls EXCEPT ![c] =
              [@ EXCEPT !.blocks = Append(@, MakeBlock(item)),
                        !.lines = Append(@, item[2]),
                        !.next = @ + 1]]
    /\ UNCHANGED <<op, arg, ret, fx>>

\* Lines 87-93: the loop is over, the result is built from the call's lists.
ReturnResult(c) ==
    /\ calls[c].pc = "loop"
    /\ calls[c].next > Len(calls[c].raw_result)
    /\ calls' = [calls EXCEPT ![c] =
          [@ EXCEPT !.pc = "done",
                    !.result = OCRResult(Join(calls[c].lines), calls[c].blocks,
                                         calls[c].total_elapsed, NoneV)]]
    /\ UNCHANGED <<op, arg, ret, fx>>

\* The caller has its result; it may call again.
Leave(c) ==
    /\ calls[c].pc = "done"
    /\ calls' = [calls EXCEPT ![c] = IdleCall]
    /\ UNCHANGED <<op, arg, ret, fx>>

NextConc ==
    \E c \in Callers :
        Enter(c) \/ RunDetector(c) \/ LoopStep(c) \/ ReturnResult(c) \/ Leave(c)

SpecConc == Init /\ [][NextConc]_vars

---------------------------------------------------------------------------
(* The claims *)

Handlers == {"ocr_from_base64", "ocr_from_path"}

\* The modes the handlers are to keep away from the detector.
NonRgbModes == {"RGBA", "P", "LA", "L"}

\* The detections the detector returned for an image ([] for None).
Detections(image) == Detect(image).raw_result.val

\* The texts of the first n blocks, joined by single newlines, first to last.
RECURSIVE JoinedTexts(_, _)
JoinedTexts(blocks, n) ==
    IF n = 0 THEN <<>>
    ELSE IF n = 1 THEN blocks[1].text
    ELSE JoinedTexts(blocks, n - 1) \o <<NL>> \o blocks[n].text

\* Python's str.splitlines over the line breaks "\n", "\r" and "\r\n": the
\* lines without their breaks, and no empty last line after a final break.
CR == "\r"
LineBreaks == {NL, CR}
HasLineBreak(text) == \E i \in 1..Len(text) : text[i] \in LineBreaks
RECURSIVE SplitLines(_)
SplitLines(text) ==
    IF text = <<>> THEN <<>>
    ELSE IF ~HasLineBreak(text) THEN <<text>>
    ELSE LET k == CHOOSE i \in 1..Len(text) :
                     text[i] \in LineBreaks /\ \A j \in 1..(i - 1) : text[j] \notin LineBreaks
             after == IF text[k] = CR /\ k < Len(text) /\ text[k + 1] = NL
                      THEN k + 2 ELSE k + 1
         IN  <<SubSeq(text, 1, k - 1)>> \o SplitLines(SubSeq(text, after, Len(text)))

\* C1: no call of process, ocr_from_base64 or ocr_from_path lets an exception
\* reach its caller, and whenever a step of the call failed the returned
\* value has an empty text, no blocks and its error set (for process, also
\* elapsed_seconds = 0).
C1_FailureIsReportedData ==
    /\ op # "none" => ~fx.propagated
    /\ (op = "process" /\ fx.failed) =>
          /\ ret.text = <<>> /\ ret.blocks = <<>>
          /\ ~ret.error.isNone
          /\ ret.elapsed_seconds = 0
    /\ (op \in Handlers /\ fx.failed) =>
          /\ ret.text = <<>> /\ ret.blocks = <<>>
          /\ "error" \in DOMAIN ret

\* C2: the mapping a handler returns has the error key if and only if some
\* step of the call failed, whatever the failure's message is.
C2_ErrorKeyIffFailed ==
    op \in Handlers => (("error" \in DOMAIN ret) <=> fx.failed)

\* C3: when the detector returns an empty or null detection list without
\* raising, process returns text "", no blocks, no error, and elapsed_seconds
\* equal to the sum of the reported stage times (0 for an empty or absent
\* list of times).
C3_EmptyDetection ==
    (op = "process" /\ ~Detect(arg).raises /\ Detections(arg) = <<>>) =>
        LET times == Detect(arg).elapsed_list
        IN  /\ ret.text = <<>>
            /\ ret.blocks = <<>>
            /\ ret.error.isNone
            /\ ret.elapsed_seconds =
                  (IF times.isNone \/ times.val = <<>> THEN 0 ELSE SumSeq(times.val))

\* C3's case: an empty (not null) detection list with three stage times.
C3_Witness ==
    /\ op = "process"
    /\ ~Detect(arg).raises
    /\ Detect(arg).raw_result = Some(<<>>)
    /\ Detect(arg).elapsed_list = Some(<<2, 3, 5>>)
    /\ ret.elapsed_seconds = 10
    /\ ret.error.isNone

\* C4: ocr_from_path checks non-empty, absolute, exists, regular file, in
\* that order, and stops at the first check that fails, each with its own
\* error; then text and blocks are empty, no file is opened and the detector
\* is not invoked.
C4_PathChecksInOrder ==
    op = "ocr_from_path" =>
        LET path == arg.file_path
            kind == arg.node.kind
            absolute == path # <<>> /\ path[1] = "/"
            rejected == /\ ret.text = <<>> /\ ret.blocks = <<>>
                        /\ "error" \in DOMAIN ret
                        /\ ~fx.opened /\ fx.passed = <<>>
        IN  /\ path = <<>> =>
                rejected /\ ret.error = <<"File path is required">>
            /\ (path # <<>> /\ ~absolute) =>
                rejected /\ ret.error = <<"File path must be absolute">>
            /\ (absolute /\ kind = "absent") =>
                rejected /\ ret.error = <<"File not found: ">> \o path
            /\ (absolute /\ kind \in {"dir", "special"}) =>
                rejected /\ ret.error = <<"Not a file: ">> \o path

\* C4's case: a relative path that names a readable image file below the
\* working directory is rejected as not absolute, unopened.
C4_Witness ==
    /\ op = "ocr_from_path"
    /\ arg.file_path = <<"a">>
    /\ arg.node.kind = "file" /\ arg.node.readable
    /\ ret.error = <<"File path must be absolute">>
    /\ ~fx.opened /\ fx.passed = <<>>

\* C5: a successful process call with a non-empty detection list returns one
\* block per detection in the detector's order, each with the detection's
\* text unchanged, and a text that is the block texts joined by single
\* newlines in that order.
C5_BlocksAndTextInOrder ==
    (op = "process" /\ ~fx.failed /\ Detections(arg) # <<>>) =>
        /\ Len(ret.blocks) = Len(Detections(arg))
        /\ \A i \in 1..Len(ret.blocks) : ret.blocks[i].text = Detections(arg)[i][2]
        /\ ret.text = JoinedTexts(ret.blocks, Len(ret.blocks))

\* C5's case: two detections with different texts.
C5_Witness ==
    /\ op = "process" /\ ~fx.failed
    /\ Len(ret.blocks) = 2
    /\ ret.blocks[1].text = <<"a">>
    /\ ret.blocks[2].text = <<"a", "a">>
    /\ ret.text = <<"a", NL, "a", "a">>

IsBase64Payload(s) == \A i \in 1..Len(s) : s[i] \in Base64Syms

\* An input that starts with "data:" and has no comma is answered with the
\* format error, with nothing decoded and the detector not invoked.
DataWithoutCommaRejected ==
    (arg # <<>> /\ arg[1] = DATA /\ \A i \in 1..Len(arg) : arg[i] # COMMA) =>
        /\ ret = ErrorDict(<<"Invalid data URI format">>)
        /\ ~fx.decoded /\ ~fx.opened /\ fx.passed = <<>>

SameTextAndBlocks(response, payload) ==
    /\ response.text = OcrFromBase64(payload).response.text
    /\ response.blocks = OcrFromBase64(payload).response.blocks

\* C8, as stated: for every base64 payload B, "data:<anything>," followed by
\* B gets the text and blocks of B alone; "data:" without a comma gets the
\* format error.
C8_AnyPrefixStripped ==
    op = "ocr_from_base64" =>
        /\ \A k \in 2..Len(arg) :
              (arg[1] = DATA /\ arg[k] = COMMA
                  /\ IsBase64Payload(SubSeq(arg, k + 1, Len(arg)))) =>
                 SameTextAndBlocks(ret, SubSeq(arg, k + 1, Len(arg)))
        /\ DataWithoutCommaRejected

\* C8, amended: the same, for an <anything> that contains no comma.
C8_CommaFreePrefixStripped ==
    op = "ocr_from_base64" =>
        /\ \A k \in 2..Len(arg) :
              (arg[1] = DATA /\ arg[k] = COMMA
                  /\ (\A j \in 2..(k - 1) : arg[j] # COMMA)
                  /\ IsBase64Payload(SubSeq(arg, k + 1, Len(arg)))) =>
                 SameTextAndBlocks(ret, SubSeq(arg, k + 1, Len(arg)))
        /\ DataWithoutCommaRejected

\* C8's case: "data:x," before the payload of the picture with text.
C8_Witness ==
    /\ op = "ocr_from_base64"
    /\ arg = <<DATA, "x", COMMA, "TEXT">>
    /\ Len(ret.blocks) = 2
    /\ "error" \notin DOMAIN ret

\* C9: the image a handler passes to process is never in mode RGBA, P, LA or
\* L: an image opened in one of these modes is passed as RGB, an image opened
\* in any other mode is passed in that mode.
C9_ModeNormalised ==
    (op \in Handlers /\ fx.passed # <<>>) =>
        /\ fx.passed[1] \notin NonRgbModes
        /\ fx.mode[1] \in NonRgbModes => fx.passed = <<"RGB">>
        /\ fx.mode[1] \notin NonRgbModes => fx.passed = fx.mode

\* C9's case: a palette image reaches the detector as RGB.
C9_Witness ==
    /\ op = "ocr_from_base64"
    /\ fx.mode = <<"P">>
    /\ fx.passed = <<"RGB">>
    /\ Len(ret.blocks) = 2

\* C10, as stated: for every successful process call, splitlines of the
\* result's text gives at most as many lines as the result has blocks.
C10_LinesAtMostBlocks ==
    (op = "process" /\ ~fx.failed) =>
        Len(SplitLines(ret.text)) <= Len(ret.blocks)

\* C10, amended: the same, for detections whose texts contain no line break.
C10_LinesAtMostBlocksNoBreaks ==
    (op = "process" /\ ~fx.failed
        /\ \A i \in 1..Len(Detections(arg)) : ~HasLineBreak(Detections(arg)[i][2])) =>
        Len(SplitLines(ret.text)) <= Len(ret.blocks)

\* C10's case: two detections without line breaks, the second one empty:
\* one line for two blocks.
C10_Witness ==
    /\ op = "process" /\ ~fx.failed
    /\ Len(ret.blocks) = 2
    /\ ret.blocks[1].text = <<"a">>
    /\ ret.blocks[2].text = <<>>
    /\ Len(SplitLines(ret.text)) = 1

===========================================================================
